---- MODULE Spec2Model ----
(***************************************************************************)
(* Model of geopolitical_agent.py: main(), GeopoliticalRiskAgent's         *)
(* assessment loop (generate_report / assess_category_risk), the scorer    *)
(* (analyze_risk_with_llm), the two search adapters and save_as_table.     *)
(*                                                                         *)
(* Scores are integers in tenths (75 stands for 7.5).  Text is a sequence  *)
(* of one-character strings.  The timestamp field of an assessment is not  *)
(* modelled.                                                               *)
(***************************************************************************)
EXTENDS Integers, Sequences, FiniteSets, TLC

VARIABLES
    pc,                 \* control position of the running program
    env,                \* names of the environment variables that are set and non-empty
    via_main,           \* TRUE when the run was started by main()
    tavily_api_key,     \* self.tavily_api_key is truthy
    alpha_vantage_key,  \* self.alpha_vantage_key is truthy
    openai_api_key,     \* self.openai_api_key is truthy
    serpapi_key,        \* self.serpapi_key is truthy
    cat_i,              \* index of the category of the outer loop
    country_j,          \* index of the country of the inner loop
    web_results,        \* value returned by search_tavily for the current pair
    news_results,       \* value returned by search_news for the current pair
    calls,              \* methods invoked so far for the current pair, in order
    content,            \* outcome of the language-model call of the current pair
    context,            \* context handed to the scorer for the current pair
    outcome,            \* "none" | "ok" | "raised": result of the try block of the current pair
    report,             \* the list built by generate_report
    failed,             \* pairs whose processing raised, in order
    processed,          \* number of pairs whose try block has finished
    sleeps,             \* number of time.sleep(1) calls made
    calls_total,        \* adapter and scorer invocations of the whole run
    llm_calls,          \* chat.completions.create calls of the whole run
    reported,           \* names printed by main() as missing
    file_written,       \* df.to_csv has been called
    rows,               \* rows handed to df.to_csv
    save_raised,        \* save_as_table raised
    faults              \* environment misbehaviours so far (bounded by MaxFaults)

vars == <<pc, env, via_main, tavily_api_key, alpha_vantage_key, openai_api_key,
          serpapi_key, cat_i, country_j, web_results, news_results, calls,
          content, context, outcome, report, failed, processed, sleeps, calls_total,
          llm_calls, reported, file_written, rows, save_raised, faults>>

(***************************************************************************)
(* Bounds of the model.                                                    *)
(***************************************************************************)
NumCategories == 3     \* the first NumCategories categories of the taxonomy are iterated
NumCountries == 2      \* the first NumCountries countries of the list are iterated
MaxFaults == 1         \* at most this many provider / model replies of a run are not the nominal one
MaxRows == 2           \* longest report handed directly to save_as_table

(***************************************************************************)
(* Program constants.                                                      *)
(***************************************************************************)
MaxScore == 100        \* the 10 of min(10, ...), in tenths
DescLimit == 500       \* item["explanation"][:500]
MaxContext == 3        \* web_results[:3], news_results[:3]

Min(a, b) == IF a < b THEN a ELSE b
Max(a, b) == IF a > b THEN a ELSE b

AllCategories ==
    << "Global Indicator", "Global Trade Protectionism",
       "Emerging Market Political Crisis", "Global Technology Decoupling",
       "Major Terror Attacks", "European Fragmentation", "Russia-NATO Conflict",
       "U.S. China Strategic Competition", "Middle East Regional War",
       "North Korea Conflict", "Major Cyber Attacks" >>

AllCountries ==
    << "United States", "China", "Russia", "Germany", "United Kingdom",
       "France", "Japan", "India", "Brazil", "South Africa",
       "Saudi Arabia", "Iran", "North Korea", "South Korea", "Ukraine",
       "Israel", "Turkey", "Mexico", "Canada", "Australia" >>

categories == SubSeq(AllCategories, 1, NumCategories)
countries == SubSeq(AllCountries, 1, NumCountries)

GlobalCategories == {"Global Indicator", "Global Trade Protectionism"}

CountriesToAnalyze_all(category) == countries

CountriesToAnalyze(category) ==
    IF category \in GlobalCategories THEN <<"Global">> ELSE countries

EnvNames == {"TAVILY_API_KEY", "ALPHA_VANTAGE_API_KEY", "OPENAI_API_KEY", "SERPAPI_API_KEY"}

required_keys_short == <<"TAVILY_API_KEY", "SERPAPI_API_KEY">>

required_keys == <<"TAVILY_API_KEY", "OPENAI_API_KEY", "SERPAPI_API_KEY">>

\* [key for key in required_keys if not os.getenv(key)]
missing_keys(e) == SelectSeq(required_keys, LAMBDA k : k \notin e)

(***************************************************************************)
(* JSON values.  Every value is a record of the same shape so that values  *)
(* of different JSON types can be compared.                                *)
(***************************************************************************)
Absent == [t |-> "absent", n |-> 0, s |-> <<>>]
Null == [t |-> "null", n |-> 0, s |-> <<>>]
Num(x) == [t |-> "num", n |-> x, s |-> <<>>]
Str(cs) == [t |-> "str", n |-> 0, s |-> cs]
Arr(items) == [t |-> "arr", n |-> 0, s |-> items]

\* A parsed JSON document: an object with the four keys the program reads or
\* writes (each possibly absent), or a value that is not an object.
Dict(sc, ex, ki, re) ==
    [t |-> "obj", score |-> sc, explanation |-> ex, key_indicators |-> ki, reasoning |-> re]
NonDict(ty) ==
    [t |-> ty, score |-> Absent, explanation |-> Absent, key_indicators |-> Absent,
     reasoning |-> Absent]

\* dict.get(key, default)
Get(v, default) == IF v.t = "absent" THEN default ELSE v

(***************************************************************************)
(* Texts.                                                                  *)
(***************************************************************************)
NoExplanation ==
    <<"N","o"," ","e","x","p","l","a","n","a","t","i","o","n"," ","p","r","o","v","i","d","e","d">>
LLMNotAvailable ==
    <<"L","L","M"," ","n","o","t"," ","a","v","a","i","l","a","b","l","e">>
ErrorPrefix == <<"E","r","r","o","r",":"," ">>
TextTension ==
    <<"R","i","s","k"," ","s","c","o","r","e",":"," ","1","2"," ","o","u","t"," ","o","f"," ",
      "1","0"," ","d","u","e"," ","t","o"," ","t","e","n","s","i","o","n">>
TextSlashTen == <<"S","c","o","r","e",":"," ","7",".","5","/","1","0">>
TextSecondMatch ==
    <<"s","c","o","r","e"," ","u","n","k","n","o","w","n",","," ","S","C","O","R","E"," ","3">>
TextBadNumber == <<"s","c","o","r","e",":"," ","1",".","2",".","3">>
TextNoScore == <<"e","l","e","v","a","t","e","d"," ","t","e","n","s","i","o","n">>
TextSanctions == <<"s","a","n","c","t","i","o","n","s">>
TextTimeout == <<"t","i","m","e","o","u","t">>

(***************************************************************************)
(* Truthiness and slicing of JSON values, as Python evaluates them.        *)
(***************************************************************************)
Truthy(v) ==
    CASE v.t \in {"str", "arr"} -> Len(v.s) > 0
      [] v.t = "num" -> v.n # 0
      [] OTHER -> FALSE

\* v[:k] raises TypeError unless v is a string or a list
Sliceable(v) == v.t \in {"str", "arr"}

Slice(v, k) == [v EXCEPT !.s = SubSeq(v.s, 1, Min(k, Len(v.s)))]

(***************************************************************************)
(* re.search(r'(?i)score[\s:]*([\d.]+)(?:\s*\/\s*10)?', content)           *)
(***************************************************************************)
Digits == <<"0", "1", "2", "3", "4", "5", "6", "7", "8", "9">>
IsDigit(c) == \E d \in 1..10 : Digits[d] = c
DigitVal(c) == (CHOOSE d \in 1..10 : Digits[d] = c) - 1
IsNumChar(c) == IsDigit(c) \/ c = "."            \* [\d.]
IsSepChar(c) == c \in {" ", "\t", "\n", ":"}     \* [\s:]

ScoreWord == <<"s", "c", "o", "r", "e">>
ScoreWordUpper == <<"S", "C", "O", "R", "E">>

\* (?i)score matches at position i
WordAt(cs, i) ==
    /\ i + 4 <= Len(cs)
    /\ \A k \in 1..5 : cs[i + k - 1] \in {ScoreWord[k], ScoreWordUpper[k]}

\* first position >= i whose character is not in the class (Len+1 when none)
RECURSIVE SkipSep(_, _)
SkipSep(cs, i) == IF i <= Len(cs) /\ IsSepChar(cs[i]) THEN SkipSep(cs, i + 1) ELSE i

RECURSIVE SkipNum(_, _)
SkipNum(cs, i) == IF i <= Len(cs) /\ IsNumChar(cs[i]) THEN SkipNum(cs, i + 1) ELSE i

\* the pattern matches starting at position i
MatchAt(cs, i) == WordAt(cs, i) /\ SkipNum(cs, SkipSep(cs, i + 5)) > SkipSep(cs, i + 5)

HasMatch(cs) == \E i \in 1..Len(cs) : MatchAt(cs, i)

\* re.search returns the leftmost match
MatchStart(cs) == CHOOSE i \in 1..Len(cs) : MatchAt(cs, i) /\ \A h \in 1..(i - 1) : ~MatchAt(cs, h)

\* score_match.group(1)
Group1(cs) ==
    LET j == SkipSep(cs, MatchStart(cs) + 5)
    IN  SubSeq(cs, j, SkipNum(cs, j) - 1)

(***************************************************************************)
(* float(text) for a text over [\d.]: ValueError unless it holds at most   *)
(* one point and at least one digit.  The value is in tenths; the replies  *)
(* of the model carry at most one fractional digit.                        *)
(***************************************************************************)
CountDots(g) == Cardinality({i \in 1..Len(g) : g[i] = "."})
CountDigits(g) == Cardinality({i \in 1..Len(g) : IsDigit(g[i])})
ValidFloat(g) == CountDots(g) <= 1 /\ CountDigits(g) >= 1

RECURSIVE IntVal(_)
IntVal(ds) == IF ds = <<>> THEN 0 ELSE 10 * IntVal(SubSeq(ds, 1, Len(ds) - 1)) + DigitVal(ds[Len(ds)])

DotPos(g) == IF CountDots(g) = 0 THEN Len(g) + 1 ELSE CHOOSE i \in 1..Len(g) : g[i] = "."

ParseFloat(g) ==
    LET d == DotPos(g)
        whole == SubSeq(g, 1, d - 1)
        frac == SubSeq(g, d + 1, Len(g))
    IN  10 * IntVal(whole) + (IF frac = <<>> THEN 0 ELSE DigitVal(frac[1]))

(***************************************************************************)
(* Score clamping.                                                         *)
(***************************************************************************)
\* line 171: min(10, max(0, float(score_match.group(1))))
ClampHeuristic(x) == Min(MaxScore, Max(0, x))

ClampAssessment_lower(x) == Max(0, x)

\* line 220: min(10, max(0, analysis.get("score", 0)))
ClampAssessment(x) == Min(MaxScore, Max(0, x))

\* random.uniform(0, 5): the draws the model considers
RandomScores_wide == {0, 50, 80}

RandomScores == {0, 50}

(***************************************************************************)
(* The search adapters (search_tavily, search_news).  With a credential    *)
(* the adapter returns data.get("results", []) of the provider's payload:  *)
(* an empty list (also on any caught error), a list of results, or, when   *)
(* the payload is malformed, a value that is not a list.                   *)
(***************************************************************************)
EmptyList == Arr(<<>>)
SomeResults == Arr(<<"r1", "r2", "r3", "r4">>)
MalformedResults == Num(1)
Unset == Absent

NominalResults == {EmptyList, SomeResults}

AdapterReturns(key, f) ==
    IF ~key THEN {EmptyList}
    ELSE NominalResults \cup (IF f < MaxFaults THEN {MalformedResults} ELSE {})

NoWebResults == Str(<<"N","o"," ","w","e","b"," ","r","e","s","u","l","t","s"," ","f","o","u","n","d",".">>)
NoNewsResults == Str(<<"N","o"," ","n","e","w","s"," ","r","e","s","u","l","t","s"," ","f","o","u","n","d",".">>)

\* the two interpolations of the context f-string (lines 192 and 195)
ContextRaises(web, news) ==
    \/ Truthy(web) /\ ~Sliceable(web)
    \/ Truthy(news) /\ ~Sliceable(news)

ContextOf(web, news) ==
    [web |-> IF Truthy(web) THEN Slice(web, MaxContext) ELSE NoWebResults,
     news |-> IF Truthy(news) THEN Slice(news, MaxContext) ELSE NoNewsResults]

NoContext == [web |-> Absent, news |-> Absent]
EmptyContext == [web |-> NoWebResults, news |-> NoNewsResults]

(***************************************************************************)
(* Outcomes of chat.completions.create: the call raises, the reply has no  *)
(* content, the content is a JSON document, or the content is other text.  *)
(***************************************************************************)
NoCall == [kind |-> "unset", doc |-> NonDict("none"), text |-> <<>>]
CallRaises == [kind |-> "raise", doc |-> NonDict("none"), text |-> TextTimeout]
ContentNone == [kind |-> "none", doc |-> NonDict("none"), text |-> <<>>]
Json(d) == [kind |-> "json", doc |-> d, text |-> <<>>]
Text(cs) == [kind |-> "text", doc |-> NonDict("none"), text |-> cs]

NominalReply ==
    Json(Dict(Num(70), Str(TextNoScore), Arr(<<"sanctions">>), Absent))

OtherReplies ==
    { CallRaises, ContentNone,
      Json(Dict(Num(120), Str(TextNoScore), Arr(<<>>), Absent)),    \* score above the range
      Json(Dict(Num(-30), Absent, Absent, Absent)),                 \* score below the range
      Json(Dict(Absent, Str(TextSanctions), Absent, Absent)),       \* no score
      Json(Dict(Str(<<"h", "i", "g", "h">>), Str(TextNoScore), Absent, Absent)),  \* score is a string
      Json(Dict(Null, Absent, Absent, Absent)),                     \* score is null
      Json(Dict(Num(75), Null, Absent, Absent)),                    \* explanation is null
      Json(NonDict("arr")),                                         \* a JSON array
      Json(NonDict("num")),                                         \* a JSON number
      Text(TextTension), Text(TextSlashTen), Text(TextSecondMatch),
      Text(TextBadNumber), Text(TextNoScore) }

LLMOutcomes(f) == {NominalReply} \cup (IF f < MaxFaults THEN OtherReplies ELSE {})

\* the except branch of analyze_risk_with_llm (lines 175-177)
Fallback(r, note) == Dict(Num(r), Absent, Absent, Str(note))

\* float(score_match.group(1)) raises ValueError (line 171)
HeuristicRaises(cs) == HasMatch(cs) /\ ~ValidFloat(Group1(cs))

\* the JSONDecodeError branch (lines 162-173) when it does not raise
Heuristic(cs) ==
    Dict(Num(IF HasMatch(cs) THEN ClampHeuristic(ParseFloat(Group1(cs))) ELSE 0),
         Absent, Absent, Str(cs))

\* analyze_risk_with_llm(prompt); out is the outcome of the call when one is
\* made, r the value random.uniform(0, 5) returns when it is drawn
analyze_risk_with_llm(key, out, r) ==
    IF ~key THEN Dict(Num(r), Absent, Absent, Str(LLMNotAvailable))
    ELSE CASE out.kind = "raise" -> Fallback(r, ErrorPrefix \o out.text)
           [] out.kind = "none" -> Fallback(r, ErrorPrefix)
           [] out.kind = "json" -> out.doc
           [] OTHER -> IF HeuristicRaises(out.text)
                       THEN Fallback(r, ErrorPrefix)
                       ELSE Heuristic(out.text)

\* lines 220-229 raise when analysis has no .get or its score is not a number
ResultRaises(analysis) ==
    \/ analysis.t # "obj"
    \/ Get(analysis.score, Num(0)).t # "num"

Assessment(category, country, analysis) ==
    [country |-> country,
     category |-> category,
     score |-> ClampAssessment(Get(analysis.score, Num(0)).n),
     explanation |-> Get(analysis.explanation, Str(NoExplanation)),
     key_indicators |-> Get(analysis.key_indicators, Arr(<<>>))]

\* the part of assess_category_risk after the scorer returned
AssessResult(category, country, analysis) ==
    [raised |-> ResultRaises(analysis),
     item |-> Assessment(category, country, analysis)]

(***************************************************************************)
(* The assessment loop.                                                    *)
(***************************************************************************)
category_now == categories[cat_i]
country_now == CountriesToAnalyze(category_now)[country_j]

ReportAfter_partial(rep, res) == Append(rep, res.item)

\* try: result = ...; report.append(result)  except Exception: print(...)
ReportAfter(rep, res) == IF res.raised THEN rep ELSE Append(rep, res.item)

SleepsAfter_onsuccess(o, n) == IF o = "ok" THEN n + 1 ELSE n

\* time.sleep(1) after the try statement (line 253)
SleepsAfter(o, n) == n + 1

PairVarsReset ==
    /\ web_results' = Unset
    /\ news_results' = Unset
    /\ calls' = <<>>
    /\ content' = NoCall
    /\ context' = NoContext
    /\ outcome' = "none"

\* GeopoliticalRiskAgent.__init__: the credentials are read from the environment
Construct(e) ==
    /\ tavily_api_key' = ("TAVILY_API_KEY" \in e)
    /\ alpha_vantage_key' = ("ALPHA_VANTAGE_API_KEY" \in e)
    /\ openai_api_key' = ("OPENAI_API_KEY" \in e)
    /\ serpapi_key' = ("SERPAPI_API_KEY" \in e)

\* main() up to the first provider call, or up to its early return
Main ==
    /\ pc = "start"
    /\ via_main' = TRUE
    /\ IF missing_keys(env) # <<>>
       THEN /\ reported' = missing_keys(env)
            /\ pc' = "exit"
            /\ UNCHANGED <<tavily_api_key, alpha_vantage_key, openai_api_key, serpapi_key>>
       ELSE /\ Construct(env)
            /\ pc' = "search_tavily"
            /\ UNCHANGED reported
    /\ UNCHANGED <<env, cat_i, country_j, web_results, news_results, calls, content,
                   context, outcome, report, failed, processed, sleeps, calls_total,
                   llm_calls, file_written, rows, save_raised, faults>>

\* a caller other than main() constructs the agent
NewAgent ==
    /\ pc = "start"
    /\ via_main' = FALSE
    /\ Construct(env)
    /\ pc' = "constructed"
    /\ UNCHANGED <<env, cat_i, country_j, web_results, news_results, calls, content,
                   context, outcome, report, failed, processed, sleeps, calls_total,
                   llm_calls, reported, file_written, rows, save_raised, faults>>

\* generate_report() up to the first provider call
GenerateReport ==
    /\ pc = "constructed"
    /\ pc' = "search_tavily"
    /\ UNCHANGED <<env, via_main, tavily_api_key, alpha_vantage_key, openai_api_key,
                   serpapi_key, cat_i, country_j, web_results, news_results, calls,
                   content, context, outcome, report, failed, processed, sleeps,
                   calls_total, llm_calls, reported, file_written, rows, save_raised,
                   faults>>

\* web_results = self.search_tavily(search_query)   (line 183)
SearchTavily ==
    /\ pc = "search_tavily"
    /\ \E res \in AdapterReturns(tavily_api_key, faults) :
          /\ web_results' = res
          /\ faults' = IF res \in NominalResults THEN faults ELSE faults + 1
    /\ calls' = Append(calls, "search_tavily")
    /\ calls_total' = calls_total + 1
    /\ pc' = "search_news"
    /\ UNCHANGED <<env, via_main, tavily_api_key, alpha_vantage_key, openai_api_key,
                   serpapi_key, cat_i, country_j, news_results, content, context,
                   outcome, report, failed, processed, sleeps, llm_calls, reported,
                   file_written, rows, save_raised>>

\* news_results = self.search_news(search_query)   (line 184)
SearchNews ==
    /\ pc = "search_news"
    /\ \E res \in AdapterReturns(serpapi_key, faults) :
          /\ news_results' = res
          /\ faults' = IF res \in NominalResults THEN faults ELSE faults + 1
    /\ calls' = Append(calls, "search_news")
    /\ calls_total' = calls_total + 1
    /\ pc' = "analyze"
    /\ UNCHANGED <<env, via_main, tavily_api_key, alpha_vantage_key, openai_api_key,
                   serpapi_key, cat_i, country_j, web_results, content, context,
                   outcome, report, failed, processed, sleeps, llm_calls, reported,
                   file_written, rows, save_raised>>

\* the rest of assess_category_risk (lines 187-229) and of the try statement
\* of generate_report (lines 245-250)
Analyze ==
    /\ pc = "analyze"
    /\ IF ContextRaises(web_results, news_results)
       THEN /\ outcome' = "raised"
            /\ failed' = Append(failed, <<category_now, country_now>>)
            /\ UNCHANGED <<calls, calls_total, llm_calls, content, context, report, faults>>
       ELSE \E out \in (IF openai_api_key THEN LLMOutcomes(faults) ELSE {NoCall}) :
            \E r \in RandomScores :
              LET analysis == analyze_risk_with_llm(openai_api_key, out, r)
                  res == AssessResult(category_now, country_now, analysis)
              IN  /\ context' = ContextOf(web_results, news_results)
                  /\ calls' = Append(calls, "analyze_risk_with_llm")
                  /\ calls_total' = calls_total + 1
                  /\ llm_calls' = IF openai_api_key THEN llm_calls + 1 ELSE llm_calls
                  /\ content' = out
                  /\ faults' = IF out \in {NoCall, NominalReply} THEN faults ELSE faults + 1
                  /\ report' = ReportAfter(report, res)
                  /\ outcome' = IF res.raised THEN "raised" ELSE "ok"
                  /\ failed' = IF res.raised
                               THEN Append(failed, <<category_now, country_now>>)
                               ELSE failed
    /\ processed' = processed + 1
    /\ pc' = "sleep"
    /\ UNCHANGED <<env, via_main, tavily_api_key, alpha_vantage_key, openai_api_key,
                   serpapi_key, cat_i, country_j, web_results, news_results, sleeps,
                   reported, file_written, rows, save_raised>>

\* time.sleep(1) and the step of the two for loops (lines 237-253)
Sleep ==
    /\ pc = "sleep"
    /\ sleeps' = SleepsAfter(outcome, sleeps)
    /\ IF country_j < Len(CountriesToAnalyze(category_now))
       THEN /\ country_j' = country_j + 1
            /\ cat_i' = cat_i
            /\ pc' = "search_tavily"
       ELSE /\ country_j' = 1
            /\ cat_i' = cat_i + 1
            /\ pc' = IF cat_i < Len(categories) THEN "search_tavily" ELSE "returned"
    /\ PairVarsReset
    /\ UNCHANGED <<env, via_main, tavily_api_key, alpha_vantage_key, openai_api_key,
                   serpapi_key, report, failed, processed, calls_total, llm_calls,
                   reported, file_written, rows, save_raised, faults>>

(***************************************************************************)
(* The report writer.                                                      *)
(***************************************************************************)
Description_full(explanation) == explanation

\* item["explanation"][:500]
Description(explanation) == Slice(explanation, DescLimit)

\* enumerate(report, 1)
SerialNumber(i) == i

Row(i, item) ==
    [serial |-> SerialNumber(i),
     country |-> item.country,
     score |-> item.score,
     category |-> item.category,
     description |-> Description(item.explanation)]

\* save_as_table(report, filename): what it hands to df.to_csv, if anything
save_as_table(rep) ==
    IF rep = <<>>
    THEN [written |-> FALSE, raised |-> FALSE, rows |-> <<>>]
    ELSE IF \E i \in 1..Len(rep) : ~Sliceable(rep[i].explanation)
    THEN [written |-> FALSE, raised |-> TRUE, rows |-> <<>>]
    ELSE [written |-> TRUE, raised |-> FALSE, rows |-> [i \in 1..Len(rep) |-> Row(i, rep[i])]]

\* main() after generate_report returned (lines 297-308)
MainFinish ==
    /\ pc = "returned"
    /\ via_main
    /\ IF report # <<>>
       THEN /\ file_written' = save_as_table(report).written
            /\ rows' = save_as_table(report).rows
            /\ save_raised' = save_as_table(report).raised
       ELSE UNCHANGED <<file_written, rows, save_raised>>
    /\ pc' = "exit"
    /\ UNCHANGED <<env, via_main, tavily_api_key, alpha_vantage_key, openai_api_key,
                   serpapi_key, cat_i, country_j, web_results, news_results, calls,
                   content, context, outcome, report, failed, processed, sleeps,
                   calls_total, llm_calls, reported, faults>>

\* a caller other than main() hands the report to save_as_table
SaveAsTable ==
    /\ pc = "returned"
    /\ ~via_main
    /\ file_written' = save_as_table(report).written
    /\ rows' = save_as_table(report).rows
    /\ save_raised' = save_as_table(report).raised
    /\ pc' = "exit"
    /\ UNCHANGED <<env, via_main, tavily_api_key, alpha_vantage_key, openai_api_key,
                   serpapi_key, cat_i, country_j, web_results, news_results, calls,
                   content, context, outcome, report, failed, processed, sleeps,
                   calls_total, llm_calls, reported, faults>>

(***************************************************************************)
(* Specification of a run of the program.                                  *)
(***************************************************************************)
Init ==
    /\ pc = "start"
    /\ env \in SUBSET EnvNames
    /\ via_main = FALSE
    /\ tavily_api_key = FALSE
    /\ alpha_vantage_key = FALSE
    /\ openai_api_key = FALSE
    /\ serpapi_key = FALSE
    /\ cat_i = 1
    /\ country_j = 1
    /\ web_results = Unset
    /\ news_results = Unset
    /\ calls = <<>>
    /\ content = NoCall
    /\ context = NoContext
    /\ outcome = "none"
    /\ report = <<>>
    /\ failed = <<>>
    /\ processed = 0
    /\ sleeps = 0
    /\ calls_total = 0
    /\ llm_calls = 0
    /\ reported = <<>>
    /\ file_written = FALSE
    /\ rows = <<>>
    /\ save_raised = FALSE
    /\ faults = 0

Next ==
    \/ Main
    \/ NewAgent
    \/ GenerateReport
    \/ SearchTavily
    \/ SearchNews
    \/ Analyze
    \/ Sleep
    \/ MainFinish
    \/ SaveAsTable

Spec == Init /\ [][Next]_vars

(***************************************************************************)
(* Specification of save_as_table applied to a given report.               *)
(***************************************************************************)
\* a text of n characters whose characters differ along its length
TextOfLen(n) == [i \in 1..n |-> Digits[(i % 10) + 1]]

ExplanationsIn ==
    { Str(<<>>), Str(TextNoScore), Str(TextOfLen(DescLimit)),
      Str(TextOfLen(DescLimit + 1)), Str(TextOfLen(DescLimit + 7)), Null }

AssessmentsIn ==
    [country : {"Global", "China"},
     category : {"Global Indicator"},
     score : {75},
     explanation : ExplanationsIn,
     key_indicators : {Arr(<<>>)}]

RECURSIVE SeqsUpTo(_, _)
SeqsUpTo(S, n) ==
    IF n = 0 THEN {<<>>}
    ELSE LET shorter == SeqsUpTo(S, n - 1)
         IN  shorter \cup {Append(q, x) : q \in shorter, x \in S}

InitTable ==
    /\ pc = "returned"
    /\ env = EnvNames
    /\ via_main = FALSE
    /\ tavily_api_key = TRUE
    /\ alpha_vantage_key = TRUE
    /\ openai_api_key = TRUE
    /\ serpapi_key = TRUE
    /\ cat_i = 1
    /\ country_j = 1
    /\ web_results = Unset
    /\ news_results = Unset
    /\ calls = <<>>
    /\ content = NoCall
    /\ context = NoContext
    /\ outcome = "none"
    /\ report \in SeqsUpTo(AssessmentsIn, MaxRows)
    /\ failed = <<>>
    /\ processed = 0
    /\ sleeps = 0
    /\ calls_total = 0
    /\ llm_calls = 0
    /\ reported = <<>>
    /\ file_written = FALSE
    /\ rows = <<>>
    /\ save_raised = FALSE
    /\ faults = 0

NextTable == SaveAsTable

SpecTable == InitTable /\ [][NextTable]_vars

(***************************************************************************)
(* Properties.                                                             *)
(***************************************************************************)
Range(q) == {q[i] : i \in 1..Len(q)}
Last(q) == q[Len(q)]

\* the generation order as the specification states it
ExpectedCountries(c) ==
    IF c = "Global Indicator" \/ c = "Global Trade Protectionism"
    THEN <<"Global">>
    ELSE countries

RECURSIVE ExpectedOrderUpTo(_)
ExpectedOrderUpTo(k) ==
    IF k = 0 THEN <<>>
    ELSE ExpectedOrderUpTo(k - 1) \o
         [j \in 1..Len(ExpectedCountries(categories[k])) |->
             <<categories[k], ExpectedCountries(categories[k])[j]>>]

ExpectedOrder == ExpectedOrderUpTo(Len(categories))
TotalPairs == Len(ExpectedOrder)
NumGlobalScope ==
    Cardinality({k \in 1..Len(categories) :
                    categories[k] \in {"Global Indicator", "Global Trade Protectionism"}})

PairsOf(rep) == [i \in 1..Len(rep) |-> <<rep[i].category, rep[i].country>>]

\* generate_report has returned
RunFinished == pc = "returned" \/ (pc = "exit" /\ reported = <<>>)

ScorerInvoked == "analyze_risk_with_llm" \in Range(calls)

\* C1: every assessment in the report has a score between 0 and 10, whatever
\* the language-model call produced.
C1_ScoreInRange ==
    \A i \in 1..Len(report) : report[i].score >= 0 /\ report[i].score <= 100

C1_Witness ==
    /\ pc = "sleep"
    /\ outcome = "ok"
    /\ content.kind = "json"
    /\ content.doc.score = Num(120)
    /\ Last(report).score = 100

\* C2: when processing a pair raises, nothing is appended for the pair, the
\* report is unchanged, the loop goes on with the next pair in generation
\* order, and generate_report returns only after all pairs were processed.
C2_FailureIsSkipped ==
    [][ /\ (pc = "analyze" /\ outcome' = "raised")
            => (report' = report /\ pc' = "sleep")
        /\ (pc = "sleep" /\ outcome = "raised")
            => /\ report' = report
               /\ IF processed < TotalPairs
                  THEN /\ pc' = "search_tavily"
                       /\ <<categories[cat_i'], CountriesToAnalyze(categories[cat_i'])[country_j']>>
                             = ExpectedOrder[processed + 1]
                  ELSE pc' = "returned"
        /\ (pc' = "returned" /\ pc # "returned") => processed = TotalPairs ]_vars

C2_Witness ==
    /\ pc = "search_tavily"
    /\ failed # <<>>
    /\ processed >= 2
    /\ Len(report) = processed - Len(failed)

C4_Original ==
    (pc = "sleep" /\ content.kind = "text") =>
        /\ outcome = "ok"
        /\ Last(report).score >= 0 /\ Last(report).score <= 100
        /\ content.text = TextTension => Last(report).score = 100
        /\ Last(report).explanation = Str(content.text)
        /\ Last(report).key_indicators = Arr(<<>>)

\* C5 (as claimed): whatever the language-model call produced, once the
\* scorer was invoked the pair is not skipped.
C5_Original ==
    (pc = "sleep" /\ ScorerInvoked) => outcome = "ok"

\* C6: without a language-model credential the scorer makes no call to the
\* language model, does not raise, and the result has a score in [0,5] and a
\* non-empty explanation string.
C6_DegradedMode ==
    ~openai_api_key =>
        /\ llm_calls = 0
        /\ (pc = "sleep" /\ ScorerInvoked) =>
              /\ outcome = "ok"
              /\ content = NoCall
              /\ Last(report).score >= 0 /\ Last(report).score <= 50
              /\ Last(report).explanation.t = "str"
              /\ Len(Last(report).explanation.s) > 0

C6_Witness ==
    /\ pc = "sleep"
    /\ ~openai_api_key
    /\ ScorerInvoked
    /\ outcome = "ok"
    /\ Last(report).score = 50

\* C7 (as claimed): for every pair the web search adapter, the news search
\* adapter and the scorer are each invoked exactly once, in that order, and
\* when both adapters return empty results the scorer is invoked with empty
\* context and an assessment is appended.
C7_Original ==
    pc = "sleep" =>
        /\ calls = <<"search_tavily", "search_news", "analyze_risk_with_llm">>
        /\ (web_results = EmptyList /\ news_results = EmptyList) =>
              /\ context = EmptyContext
              /\ outcome = "ok"

\* C8: there is exactly one pacing delay after each pair, failed or not: the
\* number of delays equals the number of pairs processed, the delay of the
\* pair just processed being the only one outstanding.
C8_OneDelayPerPair ==
    /\ pc = "sleep" => sleeps = processed - 1
    /\ pc # "sleep" => sleeps = processed
    /\ RunFinished => sleeps = TotalPairs

C8_Witness ==
    /\ pc = "returned"
    /\ failed # <<>>
    /\ sleeps = TotalPairs

C10_StartupCheck ==
    via_main =>
        LET needed == {"OPENAI_API_KEY", "TAVILY_API_KEY", "SERPAPI_API_KEY"}
        IN  IF needed \ env # {}
            THEN /\ pc = "exit"
                 /\ Range(reported) = needed \ env
                 /\ Len(reported) = Cardinality(needed \ env)
                 /\ calls_total = 0
                 /\ llm_calls = 0
                 /\ processed = 0
                 /\ report = <<>>
                 /\ ~file_written
            ELSE /\ reported = <<>>
                 /\ pc = "exit" => processed = TotalPairs

C10_Witness ==
    /\ via_main
    /\ pc = "exit"
    /\ Len(reported) = 2
    /\ "ALPHA_VANTAGE_API_KEY" \in env

====
